---- MODULE Spec2Model ----
(***************************************************************************)
(* Model of the `casual` crate (src/src/lib.rs): the Input<T> builder, the *)
(* read-parse-validate-retry loop of Input::try_get_with, the terminal     *)
(* operations get / check, and the confirm() shortcut.                     *)
(*                                                                         *)
(* Text is a sequence of one-character strings.  Option<X> is a sequence   *)
(* of length at most one: None is <<>>, Some(x) is <<x>>.                  *)
(***************************************************************************)
EXTENDS Integers, Sequences, FiniteSets, TLC

VARIABLES
    T,          \* the target type of Input<T>: "u8" or "String"
    prompt,     \* Input.prompt    : Option<String>
    prefix,     \* Input.prefix    : Option<String>
    suffix,     \* Input.suffix    : Option<String>
    default,    \* Input.default   : Option<T>
    validator,  \* Input.validator : Option<Validator<T>> (the closure's name)
    attached,   \* the closures the chain's matches() calls were given, in order
    lastArg,    \* per setter, the argument of its last call in the chain, Option
    mode,       \* terminal operation running: "none", "get" or "check"
    checkFn,    \* the closure given to check(), Option
    composed,   \* the local `prompt` of try_get_with: Option<String>
    pc,         \* position of the call
    stdin,      \* lines typed and not yet read; EOF is the end of the stream
    consumed,   \* the Strings read_line has returned to this call, in order
    console,    \* what has been written to stdout, in order
    faults,     \* the I/O operations that failed, in order
    vcalls,     \* the values Validator::run has been applied to, in order
    tryRes,     \* the io::Result<T> try_get_with returned, Option
    result,     \* the T that get() returned, Option
    checkCalls, \* the values the check closure has been applied to, in order
    answer,     \* the bool that check() returned, Option
    calls,      \* acquisition calls the program has begun, this one included
    taken,      \* the Strings read_line returned to the earlier calls, in order
    typed       \* every line that has arrived on stdin, in order

vars == <<T, prompt, prefix, suffix, default, validator, attached, mode, checkFn,
          composed, pc, stdin, consumed, console, faults, vcalls, tryRes, result,
          checkCalls, answer, lastArg, calls, taken, typed>>

cfgVars == <<prompt, prefix, suffix, default, validator, attached, lastArg>>
outVars == <<tryRes, result, checkCalls, answer>>

\* ---------------------------------------------------------------- bounds

\* Lines one acquisition call may read before the environment stops typing.
MaxReads == 3

\* matches() calls one builder chain may make.
MaxMatches == 2

\* Lines queued on stdin before a program with piped input starts.
MaxQueue == 3

\* Acquisition calls one program makes.
MaxCalls == 2

\* ------------------------------------------------------------ Option, Result

None == <<>>
Some(x) == <<x>>
Ok(v) == [ok |-> TRUE, val |-> v]
Err(e) == [ok |-> FALSE, err |-> e]

\* ---------------------------------------------------------------- text

\* char::is_whitespace, restricted to the characters of the model's alphabet.
WhiteSpace == {" ", "\t", "\n", "\r"}

RECURSIVE TrimStart(_)
TrimStart(s) ==
    IF s # <<>> /\ Head(s) \in WhiteSpace THEN TrimStart(Tail(s)) ELSE s

RECURSIVE TrimEnd(_)
TrimEnd(s) ==
    IF s # <<>> /\ s[Len(s)] \in WhiteSpace
    THEN TrimEnd(SubSeq(s, 1, Len(s) - 1))
    ELSE s

\* str::trim
Trim(s) == TrimEnd(TrimStart(s))

\* char::to_lowercase on the letters of the model's alphabet.
Lower(c) ==
    CASE c = "Y" -> "y"
      [] c = "E" -> "e"
      [] c = "S" -> "s"
      [] c = "N" -> "n"
      [] c = "O" -> "o"
      [] OTHER -> c

\* str::to_lowercase
ToLowercase(s) == [i \in 1..Len(s) |-> Lower(s[i])]

\* ---------------------------------------------------------------- parsing

TypeNames == {"u8", "String"}

Digits == <<"0", "1", "2", "3", "4", "5", "6", "7", "8", "9">>
DigitSet == {Digits[i] : i \in 1..10}
DigitVal(c) == (CHOOSE i \in 1..10 : Digits[i] = c) - 1

\* u8::MAX
U8Max == 255

ErrEmpty == "cannot parse integer from empty string"
ErrInvalidDigit == "invalid digit found in string"
ErrPosOverflow == "number too large to fit in target type"

RECURSIVE ParseDigits(_, _)
ParseDigits(s, acc) ==
    IF s = <<>> THEN Ok(acc)
    ELSE IF Head(s) \notin DigitSet THEN Err(ErrInvalidDigit)
    ELSE LET n == acc * 10 + DigitVal(Head(s))
         IN  IF n > U8Max THEN Err(ErrPosOverflow) ELSE ParseDigits(Tail(s), n)

\* <u8 as FromStr>::from_str
ParseU8(s) ==
    IF s = <<>> THEN Err(ErrEmpty)
    ELSE IF s = <<"+">> \/ s = <<"-">> THEN Err(ErrInvalidDigit)
    ELSE ParseDigits(IF Head(s) = "+" THEN Tail(s) ELSE s, 0)

\* raw.parse() : Result<T, <T as FromStr>::Err>
Parse(ty, raw) == IF ty = "u8" THEN ParseU8(raw) ELSE Ok(raw)

\* ---------------------------------------------------------------- closures

Yes == <<"y", "e", "s">>
YesNoWords == {<<"n">>, <<"n", "o">>, <<"y">>, Yes}
YesWords == {<<"y">>, Yes}

\* Mutant of Call: the check closure of confirm compares case-sensitively.
CallCaseSensitive(f, v) ==
    CASE f = "lt120" -> v < 120
      [] f = "ne10"  -> v # 10
      [] f = "yesno" -> ToLowercase(Trim(v)) \in YesNoWords
      [] f = "isyes" -> v \in YesWords
      [] f = "eqyes" -> v = Yes

\* The closures callers pass to matches() and check(), by name.
Call(f, v) ==
    CASE f = "lt120" -> v < 120
      [] f = "ne10"  -> v # 10
      [] f = "yesno" -> ToLowercase(Trim(v)) \in YesNoWords
      [] f = "isyes" -> ToLowercase(v) \in YesWords
      [] f = "eqyes" -> v = Yes

\* Validator::run
ValidatorRun(f, input) == Call(f, input)

Validators(ty) == IF ty = "u8" THEN {"lt120", "ne10"} ELSE {"yesno"}
CheckFns(ty) == IF ty = "u8" THEN {"lt120"} ELSE {"isyes", "eqyes"}
Defaults(ty) == IF ty = "u8" THEN {10} ELSE {<<"n">>}

\* ---------------------------------------------------------------- inputs

PromptTexts == {<<>>, <<"?">>}
PrefixTexts == {<<">">>}
SuffixTexts == {<<":">>}
ConfirmSuffix == <<" ", "[", "y", "/", "N", "]", " ">>

\* End of stream: read_line appends nothing and returns Ok(0).
EOF == <<>>

\* What the user may type at a prompt for a number ...
NumLines == {<<"1", "0", "\n">>, <<"2", "0", "0", "\n">>,
             <<" ", "4", "2", "\t", "\n">>, <<"a", "b", "c", "\n">>,
             <<" ", "\n">>, EOF}
\* ... and at a prompt for text.
TextLines == {<<"y", "\n">>, <<"N", "\n">>, <<"y", "e", "s", "\n">>,
              <<"Y", "E", "S", "\n">>,
              <<" ", "N", "o", "\r", "\n">>,
              <<"m", "a", "y", "b", "e", "\n">>, <<"\n">>, EOF}
Lines(ty) == IF ty = "u8" THEN NumLines ELSE TextLines

\* ---------------------------------------------------------------- Init

\* No setter has been called.
NoArgs ==
    [prompt |-> None, prefix |-> None, suffix |-> None, default |-> None,
     matches |-> None]

\* Input::new()
Init ==
    /\ T \in TypeNames
    /\ calls = 1 /\ taken = <<>> /\ typed = <<>>
    /\ lastArg = NoArgs
    /\ prompt = None /\ prefix = None /\ suffix = None
    /\ default = None /\ validator = None
    /\ attached = <<>>
    /\ mode = "none" /\ checkFn = None /\ composed = None
    /\ pc = "build"
    /\ stdin = <<>> /\ consumed = <<>> /\ console = <<>> /\ faults = <<>>
    /\ vcalls = <<>>
    /\ tryRes = None /\ result = None /\ checkCalls = <<>> /\ answer = None

\* ---------------------------------------------------------------- builder

\* Input::prompt
Prompt(text) ==
    /\ pc = "build"
    /\ prompt' = Some(text)
    /\ lastArg' = [lastArg EXCEPT !.prompt = Some(text)]
    /\ UNCHANGED <<T, calls, taken, typed,
                   prefix, suffix, default, validator, attached, mode, checkFn,
                   composed, pc, stdin, consumed, console, faults, vcalls, outVars>>

\* Input::prefix
Prefix(text) ==
    /\ pc = "build"
    /\ prefix' = Some(text)
    /\ lastArg' = [lastArg EXCEPT !.prefix = Some(text)]
    /\ UNCHANGED <<T, calls, taken, typed,
                   prompt, suffix, default, validator, attached, mode, checkFn,
                   composed, pc, stdin, consumed, console, faults, vcalls, outVars>>

\* Mutant of Suffix: the text is stored in the prefix field.
SuffixSetsPrefix(text) ==
    /\ pc = "build"
    /\ prefix' = Some(text)
    /\ lastArg' = [lastArg EXCEPT !.suffix = Some(text)]
    /\ UNCHANGED <<T, calls, taken, typed,
                   prompt, suffix, default, validator, attached, mode, checkFn,
                   composed, pc, stdin, consumed, console, faults, vcalls, outVars>>

\* Input::suffix
Suffix(text) ==
    /\ pc = "build"
    /\ suffix' = Some(text)
    /\ lastArg' = [lastArg EXCEPT !.suffix = Some(text)]
    /\ UNCHANGED <<T, calls, taken, typed,
                   prompt, prefix, default, validator, attached, mode, checkFn,
                   composed, pc, stdin, consumed, console, faults, vcalls, outVars>>

\* Input::default
Default(value) ==
    /\ pc = "build"
    /\ default' = Some(value)
    /\ lastArg' = [lastArg EXCEPT !.default = Some(value)]
    /\ UNCHANGED <<T, calls, taken, typed,
                   prompt, prefix, suffix, validator, attached, mode, checkFn,
                   composed, pc, stdin, consumed, console, faults, vcalls, outVars>>

\* Mutant of Attach: a validator already attached is kept.
AttachKeepFirst(old, f) == IF old = None THEN Some(f) ELSE old

\* The field Input::matches stores, given the field as it was.
Attach(old, f) == Some(f)

\* Input::matches
Matches(f) ==
    /\ pc = "build"
    /\ Len(attached) < MaxMatches
    /\ validator' = Attach(validator, f)
    /\ attached' = Append(attached, f)
    /\ lastArg' = [lastArg EXCEPT !.matches = Some(f)]
    /\ UNCHANGED <<T, calls, taken, typed,
                   prompt, prefix, suffix, default, mode, checkFn,
                   composed, pc, stdin, consumed, console, faults, vcalls, outVars>>

\* ---------------------------------------------------------------- read_line

\* Mutant of Compose: the prefix is left out.
ComposeNoPrefix(pr, pre, suf) ==
    IF pr = None THEN None
    ELSE Some(pr[1] \o (IF suf = None THEN <<>> ELSE suf[1]))

\* The composed prompt of try_get_with (prompt.map(..)).
Compose(pr, pre, suf) ==
    IF pr = None THEN None
    ELSE Some((IF pre = None THEN <<>> ELSE pre[1])
              \o pr[1]
              \o (IF suf = None THEN <<>> ELSE suf[1]))

\* Mutant of LoopTop: the prompt is written for the first read only.
LoopTopOnce(c) == IF c = None \/ consumed # <<>> THEN "stdin" ELSE "write"

\* Where read_line starts: `if let Some(prompt) = prompt` guards the write.
LoopTop(c) == IF c = None THEN "stdin" ELSE "write"

\* try_get_with up to the loop: destructure self, compose the prompt.
Start(m, f) ==
    /\ mode' = m
    /\ checkFn' = f
    /\ composed' = Compose(prompt, prefix, suffix)
    /\ pc' = LoopTop(composed')

\* Input::get -> try_get -> try_get_with
Get ==
    /\ pc = "build"
    /\ Start("get", None)
    /\ UNCHANGED <<T, calls, taken, typed,
                   cfgVars, stdin, consumed, console, faults, vcalls, outVars>>

\* Input::check -> get -> try_get -> try_get_with
Check(f) ==
    /\ pc = "build"
    /\ Start("check", Some(f))
    /\ UNCHANGED <<T, calls, taken, typed,
                   cfgVars, stdin, consumed, console, faults, vcalls, outVars>>

\* confirm(text): prompt(text).suffix(" [y/N] ").default("n").matches(..).check(..)
Confirm(text) ==
    /\ pc = "build"
    /\ T = "String"
    /\ prompt = None /\ prefix = None /\ suffix = None
    /\ default = None /\ validator = None
    /\ prompt' = Some(text)
    /\ suffix' = Some(ConfirmSuffix)
    /\ default' = Some(<<"n">>)
    /\ validator' = Attach(validator, "yesno")
    /\ attached' = Append(attached, "yesno")
    /\ mode' = "check"
    /\ checkFn' = Some("isyes")
    /\ composed' = Compose(prompt', prefix, suffix')
    /\ pc' = LoopTop(composed')
    /\ lastArg' = [lastArg EXCEPT !.prompt = Some(text),
                                  !.suffix = Some(ConfirmSuffix),
                                  !.default = Some(<<"n">>),
                                  !.matches = Some("yesno")]
    /\ UNCHANGED <<T, calls, taken, typed, prefix, stdin, consumed, console,
                   faults, vcalls, outVars>>

\* Where a failed `?` of read_line leaves the call: try_get_with returns Err.
IoFail(kind) ==
    /\ faults' = Append(faults, kind)
    /\ tryRes' = Some(Err(kind))
    /\ pc' = "unwrap"

\* stdout.write_all(prompt.as_bytes())?
WriteAll ==
    /\ pc = "write"
    /\ \E ok \in BOOLEAN :
         IF ok
         THEN /\ console' = Append(console, <<"write", composed[1]>>)
              /\ pc' = "flush"
              /\ UNCHANGED <<tryRes, faults>>
         ELSE /\ IoFail("write")
              /\ UNCHANGED console
    /\ UNCHANGED <<T, calls, taken, typed,
                   cfgVars, mode, checkFn, composed, stdin, consumed, vcalls,
                   result, checkCalls, answer>>

\* Mutant of Flush: a failed flush is ignored and the line is read.
FlushUnchecked ==
    /\ pc = "flush"
    /\ \E ok \in BOOLEAN :
         IF ok
         THEN /\ console' = Append(console, <<"flush">>)
              /\ UNCHANGED faults
         ELSE /\ faults' = Append(faults, "flush")
              /\ UNCHANGED console
    /\ pc' = "stdin"
    /\ UNCHANGED <<T, calls, taken, typed,
                   cfgVars, mode, checkFn, composed, stdin, consumed, vcalls,
                   tryRes, result, checkCalls, answer>>

\* stdout.flush()?
Flush ==
    /\ pc = "flush"
    /\ \E ok \in BOOLEAN :
         IF ok
         THEN /\ console' = Append(console, <<"flush">>)
              /\ pc' = "stdin"
              /\ UNCHANGED <<tryRes, faults>>
         ELSE /\ IoFail("flush")
              /\ UNCHANGED console
    /\ UNCHANGED <<T, calls, taken, typed,
                   cfgVars, mode, checkFn, composed, stdin, consumed, vcalls,
                   result, checkCalls, answer>>

\* The user answers the prompt: a line, or the end of the stream.
Type(line) ==
    /\ pc = "stdin"
    /\ stdin = <<>>
    /\ Len(consumed) < MaxReads
    /\ stdin' = <<line>>
    /\ typed' = Append(typed, line)
    /\ UNCHANGED <<T, calls, taken,
                   cfgVars, mode, checkFn, composed, pc, consumed, console,
                   faults, vcalls, outVars>>

\* Mutant of Rest: the line after the one returned is dropped with it.
RestReadAhead(q) ==
    IF Head(q) = EOF THEN q
    ELSE IF Len(q) > 1 /\ q[2] # EOF THEN Tail(Tail(q)) ELSE Tail(q)

\* What io::stdin().read_line leaves in the stream: the end of the stream stays.
Rest(q) == IF Head(q) = EOF THEN q ELSE Tail(q)

\* io::stdin().read_line(&mut result)?; Ok(result)
StdinReadLine ==
    /\ pc = "stdin"
    /\ \E ok \in BOOLEAN :
         IF ok
         THEN /\ stdin # <<>>
              /\ Len(consumed) < MaxReads
              /\ consumed' = Append(consumed, Head(stdin))
              /\ stdin' = Rest(stdin)
              /\ pc' = "match"
              /\ UNCHANGED <<tryRes, faults>>
         ELSE /\ IoFail("read")
              /\ UNCHANGED <<stdin, consumed>>
    /\ UNCHANGED <<T, calls, taken, typed,
                   cfgVars, mode, checkFn, composed, console, vcalls,
                   result, checkCalls, answer>>

\* ---------------------------------------------------------------- the loop

\* `break value`: the loop ends and try_get_with returns Ok(value).
Break(value) ==
    /\ tryRes' = Some(Ok(value))
    /\ pc' = "unwrap"

\* Mutant of Continue: after two lines the loop gives up with an error.
ContinueLimited ==
    IF Len(consumed) >= 2
    THEN tryRes' = Some(Err("retries")) /\ pc' = "unwrap"
    ELSE pc' = LoopTop(composed) /\ UNCHANGED tryRes

\* `continue`: back to read_line(&prompt).
Continue ==
    /\ pc' = LoopTop(composed)
    /\ UNCHANGED tryRes

\* Mutant of PrintlnContinue: the loop retries without printing the line.
SilentContinue(text) ==
    /\ Continue
    /\ UNCHANGED <<console, faults>>

\* println!(..); continue  (println! panics when stdout cannot be written)
PrintlnContinue(text) ==
    \E ok \in BOOLEAN :
      IF ok
      THEN /\ console' = Append(console, <<"println", text>>)
           /\ Continue
           /\ UNCHANGED faults
      ELSE /\ faults' = Append(faults, "println")
           /\ pc' = "panicked"
           /\ UNCHANGED <<console, tryRes>>

\* Mutant of OnEmpty: the default is put through the validator like a parsed value.
OnEmptyValidated ==
    IF default = None
    THEN Continue /\ UNCHANGED <<console, faults, vcalls>>
    ELSE IF validator # None
    THEN /\ vcalls' = Append(vcalls, default[1])
         /\ IF ~ValidatorRun(validator[1], default[1])
            THEN PrintlnContinue(<<"Error: invalid input">>)
            ELSE Break(default[1]) /\ UNCHANGED <<console, faults>>
    ELSE /\ Break(default[1])
         /\ UNCHANGED <<console, faults, vcalls>>

\* The arm `"" =>` of the match on the trimmed line.
OnEmpty ==
    /\ IF default # None THEN Break(default[1]) ELSE Continue
    /\ UNCHANGED <<console, faults, vcalls>>

\* Mutant of OnParsed: the validator is run twice on the parsed value.
OnParsedTwice(value) ==
    IF validator # None
    THEN /\ vcalls' = vcalls \o <<value, value>>
         /\ IF ~(ValidatorRun(validator[1], value) /\ ValidatorRun(validator[1], value))
            THEN PrintlnContinue(<<"Error: invalid input">>)
            ELSE Break(value) /\ UNCHANGED <<console, faults>>
    ELSE /\ Break(value)
         /\ UNCHANGED <<console, faults, vcalls>>

\* The arm `Ok(result) =>` of raw.parse().
OnParsed(value) ==
    IF validator # None
    THEN /\ vcalls' = Append(vcalls, value)
         /\ IF ~ValidatorRun(validator[1], value)
            THEN PrintlnContinue(<<"Error: invalid input">>)
            ELSE Break(value) /\ UNCHANGED <<console, faults>>
    ELSE /\ Break(value)
         /\ UNCHANGED <<console, faults, vcalls>>

\* Mutant of OnParseErr: the parse error is propagated like an I/O error.
OnParseErrPropagated(err) ==
    /\ tryRes' = Some(Err(err))
    /\ pc' = "unwrap"
    /\ UNCHANGED <<console, faults, vcalls>>

\* Mutant of OnParseErr: the line printed is the one of a rejected value.
OnParseErrGeneric(err) ==
    /\ PrintlnContinue(<<"Error: invalid input">>)
    /\ UNCHANGED vcalls

\* The arm `Err(err) =>` of raw.parse().
OnParseErr(err) ==
    /\ PrintlnContinue(<<"Error: ", err>>)
    /\ UNCHANGED vcalls

\* Mutant of Raw: only the end of the line is trimmed.
RawTrimEnd(line) == TrimEnd(line)

\* The string the loop matches on: read_line(&prompt)?.trim()
Raw(line) == Trim(line)

\* The body of the loop of try_get_with, after read_line returned Ok.
LoopBody ==
    /\ pc = "match"
    /\ LET raw == Raw(consumed[Len(consumed)])
       IN  IF raw = <<>>
           THEN OnEmpty
           ELSE LET r == Parse(T, raw)
                IN  IF r.ok THEN OnParsed(r.val) ELSE OnParseErr(r.err)
    /\ UNCHANGED <<T, calls, taken, typed,
                   cfgVars, mode, checkFn, composed, stdin, consumed,
                   result, checkCalls, answer>>

\* Input::get: self.try_get().unwrap()
Unwrap ==
    /\ pc = "unwrap"
    /\ IF tryRes[1].ok
       THEN /\ result' = Some(tryRes[1].val)
            /\ pc' = IF mode = "check" THEN "check" ELSE "done"
       ELSE /\ pc' = "panicked"
            /\ UNCHANGED result
    /\ UNCHANGED <<T, calls, taken, typed,
                   cfgVars, mode, checkFn, composed, stdin, consumed, console,
                   faults, vcalls, tryRes, checkCalls, answer>>

\* Mutant of CheckApply: a false check sends the call back to the prompt.
CheckApplyRetry ==
    /\ pc = "check"
    /\ checkCalls' = Append(checkCalls, result[1])
    /\ IF Call(checkFn[1], result[1])
       THEN answer' = Some(TRUE) /\ pc' = "done"
       ELSE answer' = answer /\ pc' = LoopTop(composed)
    /\ UNCHANGED <<T, calls, taken, typed,
                   cfgVars, mode, checkFn, composed, stdin, consumed, console,
                   faults, vcalls, tryRes, result>>

\* Input::check: check(self.get())
CheckApply ==
    /\ pc = "check"
    /\ checkCalls' = Append(checkCalls, result[1])
    /\ answer' = Some(Call(checkFn[1], result[1]))
    /\ pc' = "done"
    /\ UNCHANGED <<T, calls, taken, typed,
                   cfgVars, mode, checkFn, composed, stdin, consumed, console,
                   faults, vcalls, tryRes, result>>

\* ---------------------------------------------------------------- Spec

Next ==
    \/ \E text \in PromptTexts : Prompt(text)
    \/ \E text \in PrefixTexts : Prefix(text)
    \/ \E text \in SuffixTexts : Suffix(text)
    \/ \E value \in Defaults(T) : Default(value)
    \/ \E f \in Validators(T) : Matches(f)
    \/ Get
    \/ \E f \in CheckFns(T) : Check(f)
    \/ \E text \in PromptTexts : Confirm(text)
    \/ WriteAll
    \/ Flush
    \/ \E line \in Lines(T) : Type(line)
    \/ StdinReadLine
    \/ LoopBody
    \/ Unwrap
    \/ CheckApply

Spec == Init /\ [][Next]_vars

\* ---------------------------------------------------------------- queued input

\* The program goes on to its next acquisition call, as guessing_game does
\* with confirm() after get(): Input::new() again, stdin as the call left it.
New ==
    /\ pc = "done"
    /\ calls < MaxCalls
    /\ calls' = calls + 1
    /\ taken' = taken \o consumed
    /\ T' \in TypeNames
    /\ lastArg' = NoArgs
    /\ prompt' = None /\ prefix' = None /\ suffix' = None
    /\ default' = None /\ validator' = None
    /\ attached' = <<>>
    /\ mode' = "none" /\ checkFn' = None /\ composed' = None
    /\ pc' = "build"
    /\ consumed' = <<>> /\ console' = <<>> /\ faults' = <<>>
    /\ vcalls' = <<>>
    /\ tryRes' = None /\ result' = None /\ checkCalls' = <<>> /\ answer' = None
    /\ UNCHANGED <<stdin, typed>>

\* Lines queued on stdin before the program starts: piped input.
QueueLines ==
    { <<"1", "0", "\n">>, <<"a", "b", "c", "\n">>, <<"y", "\n">>, <<"\n">> }

\* The queues of at most MaxQueue lines; the stream may end after them.
Queues ==
    LET seqs == UNION { [1..n -> QueueLines \cup {EOF}] : n \in 0..MaxQueue }
    IN  { q \in seqs : \A i \in 1..(Len(q) - 1) : q[i] # EOF }

\* Input::new() in a program whose stdin is piped.
InitQueue ==
    /\ T \in TypeNames
    /\ calls = 1 /\ taken = <<>>
    /\ stdin \in Queues /\ typed = stdin
    /\ lastArg = NoArgs
    /\ prompt = None /\ prefix = None /\ suffix = None
    /\ default = None /\ validator = None
    /\ attached = <<>>
    /\ mode = "none" /\ checkFn = None /\ composed = None
    /\ pc = "build"
    /\ consumed = <<>> /\ console = <<>> /\ faults = <<>>
    /\ vcalls = <<>>
    /\ tryRes = None /\ result = None /\ checkCalls = <<>> /\ answer = None

\* One step of a running call: the program is sequential and never idles.
LoopStep ==
    \/ WriteAll
    \/ Flush
    \/ StdinReadLine
    \/ LoopBody
    \/ Unwrap
    \/ CheckApply

NextQueue ==
    \/ \E value \in Defaults(T) : Default(value)
    \/ \E f \in Validators(T) : Matches(f)
    \/ Get
    \/ \E text \in PromptTexts : Confirm(text)
    \/ LoopStep
    \/ New

SpecQueue == InitQueue /\ [][NextQueue]_vars

\* A call that can take a step takes one.
FairQueue == SpecQueue /\ WF_vars(LoopStep)

\* ---------------------------------------------------------------- observations

Last(q) == q[Len(q)]
Front(q) == SubSeq(q, 1, Len(q) - 1)

\* The error lines printed so far, and the prompts written so far.
ErrLines == SelectSeq(console, LAMBDA e : e[1] = "println")
Writes == SelectSeq(console, LAMBDA e : e[1] = "write")
Flushes == SelectSeq(console, LAMBDA e : e[1] = "flush")

\* A line of zero or more whitespace characters only.
IsBlank(line) == \A i \in 1..Len(line) : line[i] \in WhiteSpace

\* The loop has ended: try_get_with returned or the call panicked.
Ended == pc \in {"unwrap", "check", "done", "panicked"}

\* The last line read has been through the loop body.
Processed == consumed # <<>> /\ pc # "match"

\* The I/O errors read_line can return.
IoKinds == {"write", "flush", "read"}

\* The value v is one the configuration accepts for the line.
AcceptedFrom(line, v) ==
    LET r == Parse(T, Trim(line))
    IN  /\ ~IsBlank(line)
        /\ r.ok
        /\ r.val = v
        /\ validator # None => Call(validator[1], v)

\* ---------------------------------------------------------------- claims

\* C1: a value returned by get() is the configured default, returned for a line
\* whose trimmed text is empty, or the parse of a non-empty trimmed line that
\* parsed and passed the validator; the call ends only with such a value or
\* with a fatal I/O error, never with a parse error or a validator rejection.
C1_ReturnedValueIsAccepted ==
    /\ tryRes # None /\ tryRes[1].ok =>
         /\ consumed # <<>>
         /\ \/ /\ IsBlank(Last(consumed))
               /\ default = Some(tryRes[1].val)
            \/ AcceptedFrom(Last(consumed), tryRes[1].val)
    /\ result # None => tryRes = Some(Ok(result[1]))
    /\ tryRes # None /\ ~tryRes[1].ok =>
         tryRes[1].err \in IoKinds /\ faults = <<tryRes[1].err>>
    /\ Ended => (result # None \/ tryRes # None \/ faults = <<"println">>)

\* C1 witness: get() returned a parsed value after a parse error and a
\* validator rejection.
C1_Witness ==
    /\ pc = "done" /\ mode = "get" /\ result # None
    /\ validator # None /\ Len(vcalls) = 2
    /\ Len(ErrLines) = 2
    /\ AcceptedFrom(Last(consumed), result[1])

\* C2: with a default d, a line of whitespace only (or of nothing) makes the
\* call return d in that iteration, and the validator is not run on d.
C2_BlankLineYieldsDefault ==
    (default # None /\ Processed /\ IsBlank(Last(consumed))) =>
        /\ tryRes = Some(Ok(default[1]))
        /\ pc \in {"unwrap", "check", "done"}
        /\ pc \in {"check", "done"} => result = default
        /\ Len(vcalls) < Len(consumed)
        /\ Len(vcalls) =
             IF validator = None THEN 0
             ELSE Len(SelectSeq(Front(consumed),
                                LAMBDA l : ~IsBlank(l) /\ Parse(T, Trim(l)).ok))

\* C2 witness: the default was returned for a whitespace-only line although
\* the validator rejects it.
C2_Witness ==
    /\ pc = "done" /\ default # None /\ result = default
    /\ validator # None /\ ~Call(validator[1], default[1])
    /\ Len(Last(consumed)) > 0 /\ IsBlank(Last(consumed))

\* A non-empty line the configuration's validator p does not let through:
\* it fails to parse, or parses to a value p rejects.
Invalid(line) ==
    /\ ~IsBlank(line)
    /\ LET r == Parse(T, Trim(line))
       IN  ~r.ok \/ ~Call(validator[1], r.val)

\* A line that parses to a value p accepts.
Valid(line) ==
    /\ ~IsBlank(line)
    /\ LET r == Parse(T, Trim(line))
       IN  r.ok /\ Call(validator[1], r.val)

\* C3: with a validator p and no default, invalid lines (non-empty, unparseable
\* or rejected by p) followed by one line that parses to a value satisfying p
\* make the call return the value of that last line, one error line having
\* been printed per invalid line and none for the accepted one.
C3_InvalidThenValid ==
    (/\ validator # None /\ default = None
     /\ Processed
     /\ \A i \in 1..(Len(consumed) - 1) : Invalid(consumed[i])
     /\ Valid(Last(consumed))) =>
        /\ tryRes = Some(Ok(Parse(T, Trim(Last(consumed))).val))
        /\ pc \in {"unwrap", "check", "done"}
        /\ pc \in {"check", "done"} => result = Some(tryRes[1].val)
        /\ Len(ErrLines) = Len(consumed) - 1
        /\ faults = <<>>

\* C3 witness: a line that does not parse, then a line p rejects, then a line
\* p accepts, and get() has returned.
C3_Witness ==
    /\ validator # None /\ default = None
    /\ pc = "done" /\ mode = "get"
    /\ Len(consumed) = 3
    /\ ~IsBlank(consumed[1]) /\ ~Parse(T, Trim(consumed[1])).ok
    /\ Invalid(consumed[2]) /\ Parse(T, Trim(consumed[2])).ok
    /\ Valid(consumed[3])
    /\ Len(ErrLines) = 2

\* The input stream has ended: nothing but the end of the stream is left.
AtEof == stdin # <<>> /\ Head(stdin) = EOF

\* C4: a line read that reaches the end of the stream is a fatal I/O error:
\* the call aborts with it, returns no value and does not go on.
C4_EndOfStreamIsFatal ==
    (AtEof /\ pc # "stdin") =>
        /\ tryRes # None /\ ~tryRes[1].ok
        /\ pc \in {"unwrap", "panicked"}
        /\ result = None

\* The text of an optional text, an unset one being the empty text.
Txt(o) == IF o = None THEN <<>> ELSE o[1]

\* C5 as stated: the prompt shown is prefix ++ prompt ++ suffix whichever of
\* the three are set, an unset one contributing the empty text, and every
\* write of the call shows that text.
C5_AsStated ==
    mode # "none" =>
        /\ Txt(composed) = Txt(prefix) \o Txt(prompt) \o Txt(suffix)
        /\ \A i \in 1..Len(Writes) :
             Writes[i][2] = Txt(prefix) \o Txt(prompt) \o Txt(suffix)

\* C5 amended: when a prompt is set, the composed prompt is
\* prefix ++ prompt ++ suffix (an unset prefix or suffix contributing the
\* empty text) and every iteration of the call writes that same text before
\* its read; when no prompt is set nothing is shown, whatever prefix and
\* suffix are.
C5_ComposedPrompt ==
    mode # "none" =>
        /\ prompt = None => composed = None /\ Writes = <<>>
        /\ prompt # None =>
             /\ composed = Some(Txt(prefix) \o prompt[1] \o Txt(suffix))
             /\ \A i \in 1..Len(Writes) :
                  Writes[i][2] = Txt(prefix) \o prompt[1] \o Txt(suffix)
             /\ Len(Writes) \in {Len(consumed), Len(consumed) + 1}

\* C5 witness: prefix, prompt and suffix are set and the prompt has been
\* written three times (two retries).
C5_Witness ==
    /\ prefix # None /\ prompt # None /\ prompt[1] # <<>> /\ suffix # None
    /\ Len(Writes) = 3 /\ Len(consumed) = 3
    /\ pc = "done"

\* The call is the one confirm() makes.
IsConfirm ==
    /\ mode = "check" /\ checkFn = Some("isyes")
    /\ suffix = Some(ConfirmSuffix)

\* "y" / "yes" and "n" / "no" in every letter case.
SayYes ==
    {<<a>> : a \in {"y", "Y"}}
    \cup {<<a, b, c>> : a \in {"y", "Y"}, b \in {"e", "E"}, c \in {"s", "S"}}
SayNo ==
    {<<a>> : a \in {"n", "N"}}
    \cup {<<a, b>> : a \in {"n", "N"}, b \in {"o", "O"}}

\* A non-empty answer that is none of y, yes, n, no.
OtherAnswer(line) == ~IsBlank(line) /\ Trim(line) \notin (SayYes \cup SayNo)

\* C6: confirm(text) returns true exactly when the accepted answer is "y" or
\* "yes" in any letter case; "n" / "no" and a blank line (default "n") return
\* false; any other answer is rejected with one error line and re-prompted.
C6_Confirm ==
    (IsConfirm /\ Processed) =>
        LET line == Last(consumed)
            a == Trim(line)
        IN  /\ IsBlank(line) => tryRes = Some(Ok(<<"n">>))
            /\ a \in (SayYes \cup SayNo) => tryRes = Some(Ok(a))
            /\ OtherAnswer(line) =>
                 /\ tryRes = None \/ ~tryRes[1].ok
                 /\ result = None /\ answer = None
                 /\ faults = <<>> =>
                      /\ pc \in {"write", "flush", "stdin"}
                      /\ Last(ErrLines) = <<"println", <<"Error: invalid input">>>>
            /\ faults = <<>> =>
                 Len(ErrLines) =
                   Len(SelectSeq(consumed, LAMBDA l : OtherAnswer(l)))
            /\ pc = "done" =>
                 /\ answer \in {Some(TRUE), Some(FALSE)}
                 /\ answer = Some(TRUE) <=> a \in SayYes
                 /\ answer = Some(FALSE) <=> (a \in SayNo \/ IsBlank(line))

\* C6 witness: "maybe" then "yes": confirm returned true after one error line.
C6_Witness ==
    /\ IsConfirm /\ pc = "done"
    /\ consumed = << <<"m", "a", "y", "b", "e", "\n">>, <<"y", "e", "s", "\n">> >>
    /\ answer = Some(TRUE)
    /\ Len(ErrLines) = 1

\* The texts s of which line is s surrounded by optional whitespace and
\* followed by the line terminator.
Reprs(line) ==
    {SubSeq(line, p[1], p[2]) :
       p \in {q \in (1..Len(line)) \X (0..(Len(line) - 1)) :
                /\ q[2] >= q[1] - 1
                /\ line[Len(line)] = "\n"
                /\ \A k \in 1..(q[1] - 1) : line[k] \in WhiteSpace
                /\ \A k \in (q[2] + 1)..(Len(line) - 1) : line[k] \in WhiteSpace}}

\* The first line read has been through the loop body.
FirstProcessed == Len(consumed) > 1 \/ (Len(consumed) = 1 /\ pc # "match")

\* A text that is not empty and neither begins nor ends with whitespace.
IsTrimmed(s) == s # <<>> /\ s[1] \notin WhiteSpace /\ s[Len(s)] \notin WhiteSpace

\* C7 as stated: every text s that T parses to a value v (for String: every
\* text), fed with optional surrounding whitespace as the first line to a
\* configuration with no validator, makes the call return v after that one
\* line, with no error line.
C7_AsStated ==
    (validator = None /\ FirstProcessed) =>
        \A s \in Reprs(consumed[1]) :
            Parse(T, s).ok =>
                /\ Len(consumed) = 1
                /\ tryRes = Some(Ok(Parse(T, s).val))
                /\ ErrLines = <<>>

\* C7 amended: the same for every text s that T parses to v and that is not
\* empty and neither begins nor ends with whitespace.
C7_TrimmedRepresentation ==
    (validator = None /\ FirstProcessed) =>
        \A s \in Reprs(consumed[1]) :
            (IsTrimmed(s) /\ Parse(T, s).ok) =>
                /\ Len(consumed) = 1
                /\ tryRes = Some(Ok(Parse(T, s).val))
                /\ ErrLines = <<>>

\* C7 witness: " 42<tab>" was the first line for T = u8 and get() returned 42.
C7_Witness ==
    /\ T = "u8" /\ validator = None /\ pc = "done"
    /\ consumed = << <<" ", "4", "2", "\t", "\n">> >>
    /\ <<"4", "2">> \in Reprs(consumed[1])
    /\ result = Some(42)

\* The lines read before the last one that were not blank.
RetriedNonBlank == SelectSeq(Front(consumed), LAMBDA l : ~IsBlank(l))

\* C8: check(predicate) runs the loop as get() does and then applies the
\* predicate once, to the resolved value, and returns its boolean; a false
\* result causes no re-prompt, read or error line, and the predicate is never
\* applied before the value is resolved.
C8_CheckAppliedOnce ==
    /\ pc # "done" => checkCalls = <<>> /\ answer = None
    /\ mode # "check" => checkCalls = <<>> /\ answer = None
    /\ (mode = "check" /\ pc = "done") =>
         /\ tryRes = Some(Ok(result[1]))
         /\ checkCalls = <<result[1]>>
         /\ answer = Some(Call(checkFn[1], result[1]))
         /\ \/ IsBlank(Last(consumed)) /\ default = result
            \/ AcceptedFrom(Last(consumed), result[1])
         /\ Len(ErrLines) = Len(RetriedNonBlank)
         /\ composed # None => Len(Writes) = Len(consumed)
         /\ faults = <<>>

\* C8 witness: the validator rejected one line, accepted the next, and the
\* check predicate returned false for the accepted value.
C8_Witness ==
    /\ mode = "check" /\ pc = "done"
    /\ answer = Some(FALSE)
    /\ Len(consumed) = 2 /\ Len(vcalls) = 2
    /\ Len(ErrLines) = 1
    /\ composed # None

\* C9: after any chain of matches() calls the validator is the closure of the
\* last call, and a parsed value is accepted iff that closure accepts it,
\* whatever the closures attached earlier say.
C9_LastValidatorWins ==
    /\ validator = (IF attached = <<>> THEN None ELSE Some(Last(attached)))
    /\ (attached # <<>> /\ Processed /\ ~IsBlank(Last(consumed))
        /\ Parse(T, Trim(Last(consumed))).ok) =>
         LET v == Parse(T, Trim(Last(consumed))).val
         IN  /\ tryRes = Some(Ok(v)) <=> Call(Last(attached), v)
             /\ Last(vcalls) = v

\* C9 witness: two matches() calls; the first closure rejects the value, the
\* last accepts it, and get() returned it.
C9_Witness ==
    /\ Len(attached) = 2 /\ attached[1] # attached[2]
    /\ pc = "done" /\ result # None
    /\ AcceptedFrom(Last(consumed), result[1])
    /\ ~Call(attached[1], result[1])

\* What the console and the input show when read_line failed with `kind`
\* in an iteration: the iterations before it ran in full, the failing one up
\* to the failed step.
AbortedAt(kind) ==
    /\ Len(Flushes) = Len(consumed)
    /\ Len(Writes) = Len(consumed) + (IF kind = "flush" THEN 1 ELSE 0)
    /\ Len(ErrLines) = Len(SelectSeq(consumed, LAMBDA l : ~IsBlank(l)))

\* The same for a failed read: the prompt, if any, was written and flushed.
AbortedAtRead ==
    /\ Len(Flushes) = Len(Writes)
    /\ Len(Writes) = (IF composed = None THEN 0 ELSE Len(consumed) + 1)
    /\ Len(ErrLines) = Len(SelectSeq(consumed, LAMBDA l : ~IsBlank(l)))

\* An I/O step of read_line has failed.
IoFailed == faults # <<>> /\ faults[1] \in IoKinds

\* C10: a write, flush or read failure aborts the call in that iteration:
\* try_get_with returns the I/O error, get() panics, and after the failure
\* nothing is written, read, printed or returned; a failed write or flush
\* prevents that iteration's read.
C10_IoFailureAborts ==
    /\ [](IoFailed =>
            /\ Len(faults) = 1
            /\ tryRes = Some(Err(faults[1]))
            /\ pc \in {"unwrap", "panicked"}
            /\ result = None /\ answer = None /\ checkCalls = <<>>
            /\ IF faults[1] = "read" THEN AbortedAtRead ELSE AbortedAt(faults[1]))
    /\ [][IoFailed =>
            /\ pc' = "panicked"
            /\ <<console, consumed, stdin, faults, tryRes, result, answer>>' =
               <<console, consumed, stdin, faults, tryRes, result, answer>>]_vars

\* C10 witness: the flush of the second iteration failed with a default
\* configured, and get() panicked.
C10_Witness ==
    /\ faults = <<"flush">> /\ pc = "panicked"
    /\ Len(consumed) = 1 /\ Len(Writes) = 2
    /\ default # None

\* ---------------------------------------------------------------- C12

\* The lines the loop body has been through, in the order they were read.
ProcessedLines == IF pc = "match" THEN Front(consumed) ELSE consumed

\* How one iteration ends for a line, read off the configuration.
Fate(line) ==
    IF IsBlank(line)
    THEN IF default = None THEN "silent" ELSE "default"
    ELSE LET r == Parse(T, Trim(line))
         IN  IF ~r.ok THEN "unparseable"
             ELSE IF validator # None /\ ~Call(validator[1], r.val)
                  THEN "invalid"
                  ELSE "accepted"

\* The error lines an iteration over the line is to print: none or one.
ErrLinesOf(line) ==
    CASE Fate(line) = "unparseable" ->
           <<(<<"println", <<"Error: ", Parse(T, Trim(line)).err>>>>)>>
      [] Fate(line) = "invalid" -> <<(<<"println", <<"Error: invalid input">>>>)>>
      [] OTHER -> <<>>

RECURSIVE ErrLinesOfAll(_)
ErrLinesOfAll(lines) ==
    IF lines = <<>> THEN <<>>
    ELSE ErrLinesOfAll(Front(lines)) \o ErrLinesOf(Last(lines))

\* The println! of the last iteration panicked on a failed write to stdout.
PrintlnFailed == faults # <<>> /\ Last(faults) = "println"

\* C12: the error lines on the console are, line by line of the input and in
\* order, none for a blank line (retried silently without a default, answered
\* by the default with one), exactly one `Error: <parse error>` for a non-blank
\* line that does not parse, exactly one `Error: invalid input` for a parsed
\* value the validator rejects, and none for an accepted line; only the line
\* of an iteration whose println! failed is missing.
C12_ErrorLinePerRejection ==
    LET due == ErrLinesOfAll(ProcessedLines)
    IN  /\ ErrLines = IF PrintlnFailed THEN Front(due) ELSE due
        /\ \A i \in 1..Len(ProcessedLines) :
             Len(ErrLinesOf(ProcessedLines[i])) <= 1

\* Three iterations: a silent retry, a parse error and a rejected value.
C12_Witness ==
    /\ Len(ProcessedLines) = 3
    /\ Fate(consumed[1]) = "silent"
    /\ Fate(consumed[2]) = "unparseable"
    /\ Fate(consumed[3]) = "invalid"
    /\ Len(ErrLines) = 2
    /\ faults = <<>>

\* ---------------------------------------------------------------- C13

\* The reads of a line the call has attempted: those that returned a line and
\* the one that failed.
ReadsAttempted ==
    Len(consumed) + Cardinality({i \in 1..Len(faults) : faults[i] = "read"})

\* The calls of write_all and flush that succeeded, in order.
PromptEvents == SelectSeq(console, LAMBDA e : e[1] # "println")

\* C13 as stated: over a run that has ended, as many prompts were written as
\* reads of a line were attempted.
C13_AsStated ==
    (Ended /\ composed # None /\ composed[1] # <<>>)
        => Len(Writes) = ReadsAttempted

\* C13: with a prompt configured every read of a line comes after a flush
\* that comes after a write of exactly the composed prompt (no newline
\* added), one write and one flush per read; a run that has ended has written
\* as many prompts as it attempted reads, but for the run that a failed flush
\* aborted, which has written one more; with no prompt configured nothing is
\* written or flushed, and an empty composed prompt writes no character.
C13_PromptBeforeRead ==
    LET w == Len(Writes)
        f == Len(Flushes)
    IN  /\ composed = None => PromptEvents = <<>>
        /\ composed # None =>
              /\ \A i \in 1..Len(PromptEvents) :
                    PromptEvents[i] = IF i % 2 = 1 THEN <<"write", composed[1]>>
                                                  ELSE <<"flush">>
              /\ Len(consumed) <= f /\ f <= w /\ w <= Len(consumed) + 1
              /\ pc = "match" => w = Len(consumed) /\ f = w
              /\ pc = "stdin" => w = Len(consumed) + 1 /\ f = w
              /\ Ended =>
                    IF faults # <<>> /\ Last(faults) = "flush"
                    THEN w = ReadsAttempted + 1 /\ f = ReadsAttempted
                    ELSE w = ReadsAttempted

\* Two iterations with a non-empty prompt, ended by an accepted line.
C13_Witness ==
    /\ pc = "done" /\ faults = <<>>
    /\ composed # None /\ composed[1] # <<>>
    /\ Len(consumed) = 2 /\ Len(Writes) = 2 /\ Len(Flushes) = 2

\* ---------------------------------------------------------------- C14

\* The values the non-blank lines that parse stand for, in order.
RECURSIVE ParsedValues(_)
ParsedValues(lines) ==
    IF lines = <<>> THEN <<>>
    ELSE ParsedValues(Front(lines))
         \o (IF ~IsBlank(Last(lines)) /\ Parse(T, Trim(Last(lines))).ok
             THEN <<Parse(T, Trim(Last(lines))).val>>
             ELSE <<>>)

\* C14: the validator has been called exactly once on the value of every
\* non-blank line that parsed, in order, and on nothing else: not for a blank
\* line, not for a line that does not parse, not on the default; without a
\* validator nothing is called.
C14_ValidatorOncePerParsedLine ==
    vcalls = IF validator = None THEN <<>> ELSE ParsedValues(ProcessedLines)

\* A line that does not parse, a rejected value, then a blank line answered by
\* the default: the validator ran once.
C14_Witness ==
    /\ pc = "done" /\ validator # None /\ default # None
    /\ Len(consumed) = 3
    /\ Fate(consumed[1]) = "unparseable"
    /\ Fate(consumed[2]) = "invalid"
    /\ Fate(consumed[3]) = "default"
    /\ result = default
    /\ Len(vcalls) = 1

\* ---------------------------------------------------------------- C15

\* C15: every field holds the argument of the last call of its setter, or is
\* unset when the setter was not called; while the chain is being built
\* nothing has been written or read, and every setter can be called with
\* every argument.
C15_SettersReplaceOwnField ==
    /\ prompt = lastArg.prompt
    /\ prefix = lastArg.prefix
    /\ suffix = lastArg.suffix
    /\ default = lastArg.default
    /\ validator = lastArg.matches
    /\ pc = "build" =>
          /\ console = <<>> /\ consumed = <<>> /\ faults = <<>>
          /\ \A text \in PromptTexts : ENABLED Prompt(text)
          /\ \A text \in PrefixTexts : ENABLED Prefix(text)
          /\ \A text \in SuffixTexts : ENABLED Suffix(text)
          /\ \A value \in Defaults(T) : ENABLED Default(value)
          /\ Len(attached) < MaxMatches =>
                \A f \in Validators(T) : ENABLED Matches(f)

\* All five setters were called, matches twice with different closures.
C15_Witness ==
    /\ pc = "build"
    /\ prompt = Some(<<"?">>) /\ prefix # None /\ suffix # None
    /\ default # None
    /\ Len(attached) = 2 /\ attached[1] # attached[2]
    /\ validator = Some(attached[2])

\* ---------------------------------------------------------------- C11

\* The loop retries on the line.
Rejected(line) == Fate(line) \in {"silent", "unparseable", "invalid"}

\* The loop breaks on the line.
Accepting(line) == Fate(line) \in {"accepted", "default"}

\* The call is in the loop and waits for its next line.
AwaitInput == pc \in {"write", "flush", "stdin", "match"}

\* The call has begun on a queue that holds an accepting line.
AcceptingLineQueued ==
    /\ pc \in {"write", "stdin"} /\ consumed = <<>>
    /\ \E i \in 1..Len(stdin) : i <= MaxReads /\ Accepting(stdin[i])

\* The call that all its lines so far were rejected by is still waiting.
C11_RejectedKeepsWaiting ==
    (pc # "build" /\ faults = <<>>
        /\ \A i \in 1..Len(ProcessedLines) : Rejected(ProcessedLines[i]))
    => (AwaitInput /\ tryRes = None /\ result = None)

\* The call whose last line was accepting has left the loop with a value.
C11_AcceptingEndsLoop ==
    (ProcessedLines # <<>> /\ Accepting(Last(ProcessedLines)))
    => (Ended /\ tryRes # None /\ tryRes[1].ok)

\* C11: as long as every line read was rejected and no I/O call failed the
\* call stays in the loop without a result, however many lines that were; a
\* call whose last line was accepting has left the loop with a value; and a
\* call that begins on a queue holding an accepting line comes to return,
\* unless an I/O call fails first.
C11_LoopEndsOnAcceptingLine ==
    /\ [](C11_RejectedKeepsWaiting /\ C11_AcceptingEndsLoop)
    /\ AcceptingLineQueued ~> (pc = "done" \/ faults # <<>>)

\* Two rejected lines and an accepting one were queued; the call returned.
C11_Witness ==
    /\ pc = "done" /\ calls = 1 /\ typed = consumed
    /\ Len(consumed) = 3
    /\ Rejected(consumed[1]) /\ Rejected(consumed[2])
    /\ Accepting(consumed[3])
    /\ result # None

\* ---------------------------------------------------------------- C16

\* The lines of a sequence of reads, the reads at the end of the stream left out.
LinesOf(reads) == SelectSeq(reads, LAMBDA l : l # EOF)

\* What the call returns for its accepting line, from its own configuration.
ValueOf(line) ==
    IF IsBlank(line) THEN default[1] ELSE Parse(T, Trim(line)).val

\* The call returned in order: no I/O call of it failed.
Returned == pc = "done" /\ faults = <<>>

\* The lines the calls have read are the head of what arrived on stdin, and
\* what is still in the stream is the rest, in order.
C16_LeftoverInOrder ==
    typed = LinesOf(taken \o consumed) \o stdin

\* The call that returned read up to its first accepting line, and its
\* outcome is a function of its configuration and that line.
C16_OutcomeFromOwnLines ==
    Returned =>
        /\ consumed # <<>>
        /\ \A i \in 1..(Len(consumed) - 1) : Rejected(consumed[i])
        /\ Accepting(Last(consumed))
        /\ result = Some(ValueOf(Last(consumed)))
        /\ ErrLines = ErrLinesOfAll(Front(consumed))
        /\ mode = "check" => answer = Some(Call(checkFn[1], ValueOf(Last(consumed))))

\* The only step of a program whose call has returned is the beginning of
\* its next call, which reads and writes nothing.
C16_DoneTouchesNothing ==
    pc = "done" =>
        /\ stdin' = stdin /\ typed' = typed
        /\ taken' = taken \o consumed
        /\ pc' = "build" /\ consumed' = <<>> /\ console' = <<>>

\* C16: a call reads up to and including its first accepting line; once it
\* has returned it reads no line and writes nothing more, so the lines queued
\* after the accepting one are still in the stream, in order, for the next
\* call, whose outcome is a function of its own configuration and the lines
\* it reads itself.
C16_CallsAreIndependent ==
    /\ [](C16_LeftoverInOrder /\ C16_OutcomeFromOwnLines)
    /\ [][C16_DoneTouchesNothing]_vars

\* A get() read a rejected line and a number; the confirm() after it read the
\* third queued line and answered yes.
C16_Witness ==
    /\ calls = 2 /\ Returned
    /\ Len(taken) = 2 /\ Len(typed) = 3
    /\ consumed = << <<"y", "\n">> >>
    /\ typed = taken \o consumed
    /\ attached = <<"yesno">> /\ checkFn = Some("isyes")
    /\ answer = Some(TRUE)

====
